---- MODULE Spec2Model ----
(***************************************************************************)
(* A model of src/src/main.cpp: an SDL2 + OpenGL 4.1 core program that      *)
(* initializes a window and context, uploads one quad, builds one shader    *)
(* program and redraws the quad every frame until SDL_QUIT is polled.       *)
(*                                                                          *)
(* The program is sequential.  Its state is the globals of main.cpp, the    *)
(* position of main (pc), the OpenGL context state the GL calls act on      *)
(* (gl), the SDL state (sdl, events) and the standard output.  The user     *)
(* posting window events is the only concurrent process.                    *)
(*                                                                          *)
(* Floats are kept as exact integers: coordinates and colours in halves     *)
(* (-0.5f is -1, 1.0f is 2), the clear colour in hundredths.                *)
(***************************************************************************)
EXTENDS Integers, Sequences, FiniteSets, TLC

VARIABLES
  pc,                              \* position of main()
  exitCode,                        \* process status; -1 while running
  gQuit,
  gGraphicsApplicationWindow,      \* 0 is nullptr
  gOpenGLContext,                  \* 0 is nullptr
  gGraphicsPipelineShaderProgram,
  gVertexArrayObject,
  gVertexBufferObject,
  gIndexBufferObject,
  gl,                              \* OpenGL context state and the calls made
  sdl,                             \* SDL subsystem / window / context state
  events,                          \* SDL event queue
  stdout,                          \* lines printed to std::cout
  phases,                          \* history: phases of main entered so far
  nInput, nPreDraw, nDraw, nSwap,  \* history: calls made by MainLoop
  nQuitPolled,                     \* history: SDL_QUIT events polled by Input
  quitFrame                        \* history: the Input call that first set gQuit; 0 if none

vars == <<pc, exitCode, gQuit, gGraphicsApplicationWindow, gOpenGLContext,
          gGraphicsPipelineShaderProgram, gVertexArrayObject, gVertexBufferObject,
          gIndexBufferObject, gl, sdl, events, stdout, phases, nInput, nPreDraw, nDraw, nSwap, nQuitPolled, quitFrame>>

\* ------------------------------------------------------------------ bounds
\* Events waiting in the queue at most (the queue of SDL is finite).
MaxEvents == 2
\* SDL_QUIT events posted during one run (each one polled is printed).
MaxQuits == 2
\* Loop iterations explored (the loop itself is unbounded).
MaxFrames == 2

\* ------------------------------------------------------- program constants
gScreenWidth == 640
gScreenHeight == 480
sizeofGLfloat == 4
sizeofGLuint == 4
\* glDrawElements(GL_TRIANGLES, 6, GL_UNSIGNED_INT, 0)
DrawCount == 6

\* const std::vector<GLfloat> vertexData, in halves.
vertexData ==
  << -1, -1, 0,   2, 0, 0,
      1, -1, 0,   0, 2, 0,
     -1,  1, 0,   0, 0, 2,
      1,  1, 0,   0, 2, 0 >>

indexBufferData_OutOfRange == <<2, 0, 1, 3, 2, 4>>
\* const std::vector<GLuint> indexBufferData
indexBufferData == <<2, 0, 1, 3, 2, 1>>

\* ---------------------------------------------------------------- helpers
Range(s) == { s[i] : i \in 1..Len(s) }

Call(f, a) == [f |-> f, a |-> a]

Logged(m, f, a) == [m EXCEPT !.log = Append(@, Call(f, a))]

\* The context keeps the first error flag until glGetError reads it, which the
\* program never does.
Raise(m, e) == IF m.error = "GL_NO_ERROR" THEN [m EXCEPT !.error = e] ELSE m

\* The names of the calls of a log, in order.
Names(log) == [i \in 1..Len(log) |-> log[i].f]

\* ------------------------------------------------------ OpenGL 4.1 core
\* What lastDraw holds before any draw.
NoDraw == [program |-> 0, vertexArray |-> 0, elementArrayBuffer |-> 0,
           count |-> 0, indices |-> <<>>, attribs |-> <<>>, fetches |-> {},
           onto |-> "undefined"]

FreshAttrib == [enabled |-> FALSE, buffer |-> 0, size |-> 4, stride |-> 0, offset |-> 0]

FreshVertexArray == [elementArrayBuffer |-> 0, attribs |-> [i \in 0..1 |-> FreshAttrib]]

\* State of a freshly created context: object names start at 1 and the
\* viewport is the window the context was made current on.
NewContext ==
  [ log |-> <<>>, error |-> "GL_NO_ERROR", ret |-> 0,
    vertexArrayBinding |-> 0, arrayBufferBinding |-> 0, currentProgram |-> 0,
    vertexArrays |-> <<>>, buffers |-> <<>>, shaders |-> <<>>, programs |-> <<>>,
    nextObject |-> 1,
    depthTest |-> FALSE, cullFace |-> FALSE,
    viewport |-> <<0, 0, gScreenWidth, gScreenHeight>>, clearColor |-> <<0, 0, 0, 0>>,
    backBuffer |-> "undefined", frontBuffer |-> "undefined",
    infoLog |-> <<"">>, lastDraw |-> NoDraw ]

glGenVertexArrays(m) ==
  LET n == Len(m.vertexArrays) + 1
  IN  Logged([m EXCEPT !.vertexArrays = Append(@, FreshVertexArray), !.ret = n],
             "glGenVertexArrays", <<n>>)

glBindVertexArray(m, array) ==
  LET l == Logged(m, "glBindVertexArray", <<array>>)
  IN  IF array = 0 \/ array \in DOMAIN m.vertexArrays
      THEN [l EXCEPT !.vertexArrayBinding = array]
      ELSE Raise(l, "GL_INVALID_OPERATION")

glGenBuffers(m) ==
  LET n == Len(m.buffers) + 1
  IN  Logged([m EXCEPT !.buffers = Append(@, [size |-> 0, data |-> <<>>]), !.ret = n],
             "glGenBuffers", <<n>>)

glBindBuffer(m, target, buffer) ==
  LET l == Logged(m, "glBindBuffer_" \o target, <<buffer>>)
  IN  IF target = "GL_ARRAY_BUFFER"
      THEN [l EXCEPT !.arrayBufferBinding = buffer]
      ELSE IF m.vertexArrayBinding = 0
           THEN Raise(l, "GL_INVALID_OPERATION")
           ELSE [l EXCEPT !.vertexArrays[m.vertexArrayBinding].elementArrayBuffer = buffer]

\* The buffer object bound to target.
BoundBuffer(m, target) ==
  IF target = "GL_ARRAY_BUFFER" THEN m.arrayBufferBinding
  ELSE IF m.vertexArrayBinding = 0 THEN 0
  ELSE m.vertexArrays[m.vertexArrayBinding].elementArrayBuffer

glBufferData(m, target, size, data) ==
  LET l == Logged(m, "glBufferData_" \o target, <<size>>)
      b == BoundBuffer(m, target)
  IN  IF b = 0 THEN Raise(l, "GL_INVALID_OPERATION")
      ELSE [l EXCEPT !.buffers[b] = [size |-> size, data |-> data]]

glEnableVertexAttribArray(m, index) ==
  LET l == Logged(m, "glEnableVertexAttribArray", <<index>>)
  IN  IF m.vertexArrayBinding = 0 THEN Raise(l, "GL_INVALID_OPERATION")
      ELSE [l EXCEPT !.vertexArrays[m.vertexArrayBinding].attribs[index].enabled = TRUE]

\* With no vertex array object bound the call changes no vertex array;
\* rejects: whether the driver also raises GL_INVALID_OPERATION for it.
glDisableVertexAttribArray(m, index, rejects) ==
  LET l == Logged(m, "glDisableVertexAttribArray", <<index>>)
  IN  IF m.vertexArrayBinding = 0
      THEN (IF rejects THEN Raise(l, "GL_INVALID_OPERATION") ELSE l)
      ELSE [l EXCEPT !.vertexArrays[m.vertexArrayBinding].attribs[index].enabled = FALSE]

glVertexAttribPointer(m, index, size, stride, pointer) ==
  LET l == Logged(m, "glVertexAttribPointer", <<index, size, stride, pointer>>)
  IN  IF m.vertexArrayBinding = 0 \/ m.arrayBufferBinding = 0
      THEN Raise(l, "GL_INVALID_OPERATION")
      ELSE [l EXCEPT !.vertexArrays[m.vertexArrayBinding].attribs[index] =
              [enabled |-> @.enabled, buffer |-> m.arrayBufferBinding,
               size |-> size, stride |-> stride, offset |-> pointer]]

\* Shader and program objects share one name space.
glCreateProgram(m) ==
  LET n == m.nextObject
  IN  Logged([m EXCEPT !.programs = (n :> [attached |-> {}, linked |-> FALSE,
                                           validated |-> FALSE]) @@ @,
                       !.nextObject = n + 1, !.ret = n],
             "glCreateProgram", <<n>>)

glCreateShader(m, type) ==
  LET n == m.nextObject
  IN  Logged([m EXCEPT !.shaders = (n :> [type |-> type, source |-> "",
                                          compiled |-> FALSE, infoLog |-> <<"">>,
                                          flagged |-> FALSE]) @@ @,
                       !.nextObject = n + 1, !.ret = n],
             "glCreateShader_" \o type, <<n>>)

glShaderSource(m, shader, source) ==
  Logged([m EXCEPT !.shaders[shader].source = source], "glShaderSource", <<shader>>)

\* A text is the sequence of the pieces its newlines separate: "a\nb\n" is
\* <<"a", "b", "">> and the empty text is <<"">>.
\* What the driver's GLSL compiler can answer: the source is accepted, or it
\* is rejected with an information log of no, one or more lines.
CompilerVerdicts ==
  { [accepted |-> TRUE, infoLog |-> <<"">>],
    [accepted |-> FALSE, infoLog |-> <<"">>],
    [accepted |-> FALSE,
     infoLog |-> <<"0:1(1): error: syntax error, unexpected end of file", "">>],
    [accepted |-> FALSE,
     infoLog |-> <<"0:2(15): error: illegal use of reserved word `this'",
                   "0:2(15): error: syntax error, unexpected ERROR_TOK", "">>] }

\* What is read from a new char[length] nothing was written to: the bytes the
\* memory happens to hold up to the first zero byte, which are any text, of
\* any number of pieces, each of them empty or not.  Unwritten stands for
\* that text, whatever it is.
Unwritten == "(the bytes of the unwritten buffer)"

UninitialisedBuffers == { <<Unwritten>> }

\* verdict: the answer of the driver's GLSL compiler on the shader's source.
glCompileShader(m, shader, verdict) ==
  Logged([m EXCEPT !.shaders[shader].compiled = verdict.accepted,
                   !.shaders[shader].infoLog = verdict.infoLog],
         "glCompileShader", <<shader>>)

RECURSIVE Characters(_)
\* The characters of a text, the newlines between its pieces included.
Characters(text) ==
  IF Len(text) = 1 THEN Len(text[1])
  ELSE Len(Head(text)) + 1 + Characters(Tail(text))

\* GL_INFO_LOG_LENGTH: the characters of the log and its terminator; 0 when
\* there is no log.
InfoLogLength(text) == IF text = <<"">> THEN 0 ELSE Characters(text) + 1

\* glGetShaderiv(shader, pname, &result): the value is in ret (GL_FALSE is 0).
glGetShaderiv(m, shader, pname) ==
  LET value == IF pname = "GL_COMPILE_STATUS"
               THEN (IF m.shaders[shader].compiled THEN 1 ELSE 0)
               ELSE InfoLogLength(m.shaders[shader].infoLog)
  IN  [Logged(m, "glGetShaderiv_" \o pname, <<shader, value>>) EXCEPT !.ret = value]

\* glGetShaderInfoLog(shader, bufSize, &length, errorMessages), called with
\* the length of the log as bufSize: infoLog is what errorMessages holds after
\* the call, the whole log, or what it held before when bufSize is 0 and
\* nothing is written.
glGetShaderInfoLog(m, shader, bufSize, errorMessages) ==
  [Logged(m, "glGetShaderInfoLog", <<shader>>)
     EXCEPT !.infoLog = IF bufSize = 0 THEN errorMessages
                        ELSE m.shaders[shader].infoLog]

Attached(m, shader) == \E p \in DOMAIN m.programs : shader \in m.programs[p].attached

Without(f, k) == [x \in DOMAIN f \ {k} |-> f[x]]

glDeleteShader(m, shader) ==
  LET l == Logged(m, "glDeleteShader", <<shader>>)
  IN  IF shader = 0 THEN l
      ELSE IF shader \notin DOMAIN m.shaders THEN Raise(l, "GL_INVALID_VALUE")
      ELSE IF Attached(m, shader) THEN [l EXCEPT !.shaders[shader].flagged = TRUE]
      ELSE [l EXCEPT !.shaders = Without(@, shader)]

glAttachShader(m, program, shader) ==
  LET l == Logged(m, "glAttachShader", <<program, shader>>)
  IN  IF program \notin DOMAIN m.programs \/ shader \notin DOMAIN m.shaders
      THEN Raise(l, "GL_INVALID_VALUE")
      ELSE [l EXCEPT !.programs[program].attached = @ \cup {shader}]

glDetachShader(m, program, shader) ==
  LET l == Logged(m, "glDetachShader", <<program, shader>>)
  IN  IF program \notin DOMAIN m.programs \/ shader \notin DOMAIN m.shaders
      THEN Raise(l, "GL_INVALID_VALUE")
      ELSE IF shader \notin m.programs[program].attached
      THEN Raise(l, "GL_INVALID_OPERATION")
      ELSE LET d == [l EXCEPT !.programs[program].attached = @ \ {shader}]
           IN  IF d.shaders[shader].flagged /\ ~Attached(d, shader)
               THEN [d EXCEPT !.shaders = Without(@, shader)]
               ELSE d

\* Linking fails when an attached shader is not compiled; otherwise the
\* driver's linker decides, also for a program that lacks a stage.
Linkable(m, program) ==
  \A s \in m.programs[program].attached : m.shaders[s].compiled

glLinkProgram(m, program, accepted) ==
  Logged([m EXCEPT !.programs[program].linked = accepted /\ Linkable(m, program)],
         "glLinkProgram", <<program>>)

glValidateProgram(m, program) ==
  Logged([m EXCEPT !.programs[program].validated = m.programs[program].linked],
         "glValidateProgram", <<program>>)

\* A program that is not linked cannot be made current: the call fails and
\* the current program stays what it was.
glUseProgram(m, program) ==
  LET l == Logged(m, "glUseProgram", <<program>>)
  IN  IF program = 0 THEN [l EXCEPT !.currentProgram = 0]
      ELSE IF program \notin DOMAIN m.programs THEN Raise(l, "GL_INVALID_VALUE")
      ELSE IF ~m.programs[program].linked THEN Raise(l, "GL_INVALID_OPERATION")
      ELSE [l EXCEPT !.currentProgram = program]

glDisable(m, cap) ==
  LET l == Logged(m, "glDisable_" \o cap, <<>>)
  IN  IF cap = "GL_DEPTH_TEST" THEN [l EXCEPT !.depthTest = FALSE]
      ELSE [l EXCEPT !.cullFace = FALSE]

glViewport(m, x, y, w, h) ==
  [Logged(m, "glViewport", <<x, y, w, h>>) EXCEPT !.viewport = <<x, y, w, h>>]

glClearColor(m, r, g, b, a) ==
  [Logged(m, "glClearColor", <<r, g, b, a>>) EXCEPT !.clearColor = <<r, g, b, a>>]

\* glClear(GL_DEPTH_BUFFER_BIT | GL_COLOR_BUFFER_BIT)
glClear(m) ==
  [Logged(m, "glClear", <<>>) EXCEPT !.backBuffer = "cleared"]

\* The indices glDrawElements reads: count entries from byte offset `indices`
\* of the element array buffer; -1 stands for a read past the buffer's end.
IndicesRead(m, count, indices) ==
  LET eb == BoundBuffer(m, "GL_ELEMENT_ARRAY_BUFFER")
      data == IF eb \in DOMAIN m.buffers THEN m.buffers[eb].data ELSE <<>>
      first == indices \div sizeofGLuint
  IN  [k \in 1..count |-> IF first + k <= Len(data) THEN data[first + k] ELSE -1]

\* The floats (0-based positions in its buffer) each enabled attribute reads
\* for each index drawn.
Fetches(m, idx) ==
  LET va == m.vertexArrays[m.vertexArrayBinding]
  IN  { [attrib |-> a, index |-> idx[k], buffer |-> va.attribs[a].buffer,
         first |-> (va.attribs[a].offset + idx[k] * va.attribs[a].stride)
                     \div sizeofGLfloat,
         last  |-> (va.attribs[a].offset + idx[k] * va.attribs[a].stride)
                     \div sizeofGLfloat + va.attribs[a].size - 1]
        : a \in { x \in 0..1 : va.attribs[x].enabled },
          k \in { x \in 1..Len(idx) : idx[x] >= 0 } }

\* glDrawElements(GL_TRIANGLES, count, GL_UNSIGNED_INT, indices): draws with
\* the bindings current at the call, which lastDraw records.
glDrawElements(m, count, indices) ==
  LET l == Logged(m, "glDrawElements", <<count, indices>>)
      idx == IndicesRead(m, count, indices)
  IN  IF m.vertexArrayBinding = 0 THEN Raise(l, "GL_INVALID_OPERATION")
      ELSE [l EXCEPT
              !.lastDraw = [program |-> m.currentProgram,
                            vertexArray |-> m.vertexArrayBinding,
                            elementArrayBuffer |->
                              BoundBuffer(m, "GL_ELEMENT_ARRAY_BUFFER"),
                            count |-> count, indices |-> idx,
                            attribs |-> m.vertexArrays[m.vertexArrayBinding].attribs,
                            fetches |-> Fetches(m, idx),
                            onto |-> m.backBuffer],
              !.backBuffer = "drawn"]

\* ------------------------------------------------------------ the program
\* A shader file on disk: whether it can be opened, and its lines.
NoFile == [open |-> FALSE, lines |-> <<>>]

ShaderFiles ==
  { NoFile,
    [open |-> TRUE, lines |-> <<"#version 410 core", "void main() {}">>] }

RECURSIVE ReadLines(_, _)
\* while(std::getline(myFile, line)) result += line + '\n';
ReadLines(lines, result) ==
  IF lines = <<>> THEN result
  ELSE ReadLines(Tail(lines), result \o Head(lines) \o "\n")

LoadShaderAsString(file) ==
  IF file.open THEN ReadLines(file.lines, "") ELSE ""

CompileShader_KeepBroken(m, out, type, source, verdict, errorMessages) ==
  LET m1 == glCreateShader(m, type)
      shaderObject == m1.ret
      m2 == glShaderSource(m1, shaderObject, source)
      m3 == glCompileShader(m2, shaderObject, verdict)
      m4 == glGetShaderiv(m3, shaderObject, "GL_COMPILE_STATUS")
  IN  [gl |-> m4, stdout |-> out, ret |-> shaderObject]

\* type is GL_VERTEX_SHADER or GL_FRAGMENT_SHADER, the two types it is called
\* with; verdict is the driver's answer on the source and errorMessages what
\* the new char[length] holds when allocated.  On failure the output is the
\* ERROR line and the text of errorMessages followed by a newline.
CompileShader(m, out, type, source, verdict, errorMessages) ==
  LET m1 == glCreateShader(m, type)
      shaderObject == m1.ret
      m2 == glShaderSource(m1, shaderObject, source)
      m3 == glCompileShader(m2, shaderObject, verdict)
      m4 == glGetShaderiv(m3, shaderObject, "GL_COMPILE_STATUS")
      result == m4.ret
      m5 == glGetShaderiv(m4, shaderObject, "GL_INFO_LOG_LENGTH")
      length == m5.ret
      m6 == glGetShaderInfoLog(m5, shaderObject, length, errorMessages)
  IN  IF result = 0
      THEN [gl |-> glDeleteShader(m6, shaderObject),
            stdout |-> out \o <<"ERROR: " \o type \o " compilation failed!">>
                           \o m6.infoLog,
            ret |-> 0]
      ELSE [gl |-> m4, stdout |-> out, ret |-> shaderObject]

CreateShaderProgram(m, out, vertexShaderSource, fragmentShaderSource, vertexVerdict, fragmentVerdict, linkAccepted, vertexMessages, fragmentMessages) ==
  LET m0 == glCreateProgram(m)
      programObject == m0.ret
      v == CompileShader(m0, out, "GL_VERTEX_SHADER", vertexShaderSource,
                         vertexVerdict, vertexMessages)
      myVertexShader == v.ret
      f == CompileShader(v.gl, v.stdout, "GL_FRAGMENT_SHADER", fragmentShaderSource,
                         fragmentVerdict, fragmentMessages)
      myFragmentShader == f.ret
      m1 == glAttachShader(f.gl, programObject, myVertexShader)
      m2 == glAttachShader(m1, programObject, myFragmentShader)
      m3 == glLinkProgram(m2, programObject, linkAccepted)
      m4 == glValidateProgram(m3, programObject)
      m5 == glDetachShader(m4, programObject, myVertexShader)
      m6 == glDetachShader(m5, programObject, myFragmentShader)
      m7 == glDeleteShader(m6, myVertexShader)
      m8 == glDeleteShader(m7, myFragmentShader)
  IN  [gl |-> m8, stdout |-> f.stdout, ret |-> programObject,
       vertex |-> myVertexShader, fragment |-> myFragmentShader]

\* The statements of main, in order.
mainSequence_LoopFirst ==
  <<"InitializeProgram", "MainLoop", "VertexSpecification",
    "CreateGraphicsPipeline", "CleanUp", "return">>

mainSequence ==
  <<"InitializeProgram", "VertexSpecification", "CreateGraphicsPipeline",
    "MainLoop", "CleanUp", "return">>

\* The statements of the body of MainLoop's while, in order.
loopBody_DrawFirst == <<"Input", "Draw", "PreDraw", "SwapWindow">>

loopBody == <<"Input", "PreDraw", "Draw", "SwapWindow">>

Index(seq, x) == CHOOSE i \in 1..Len(seq) : seq[i] = x

\* Where main goes after statement p.
AfterMain(p) == mainSequence[Index(mainSequence, p) + 1]

AfterBody_BreakOnQuit(p) ==
  IF Index(loopBody, p) = Len(loopBody) \/ (p = "Input" /\ gQuit) THEN "MainLoop"
  ELSE loopBody[Index(loopBody, p) + 1]

\* Where MainLoop goes after statement p of its body: the next statement, or
\* back to the while condition.
AfterBody(p) ==
  IF Index(loopBody, p) = Len(loopBody) THEN "MainLoop"
  ELSE loopBody[Index(loopBody, p) + 1]

LoopCondition_Negated(quit) == quit

\* while (!gQuit)
LoopCondition(quit) == ~quit

NoSDL == [initialized |-> FALSE, attributes |-> <<>>, window |-> "none",
          context |-> FALSE, loader |-> FALSE]

SDLAttributes ==
  << <<"SDL_GL_CONTEXT_MAJOR_VERSION", 4>>, <<"SDL_GL_CONTEXT_MINOR_VERSION", 1>>,
     <<"SDL_GL_CONTEXT_PROFILE_MASK", 1>>, <<"SDL_GL_DOUBLEBUFFER", 1>>,
     <<"SDL_GL_DEPTH_SIZE", 2>> >>

GetOpenGLVersionInfo(out) ==
  out \o <<"Vendor: ", "Renderer: ", "Version: ", "Shading Language: ">>

InitializeProgram_Continue(s, out, sdlInitOk, windowOk, contextOk, gladOk) ==
  [sdl |-> [initialized |-> sdlInitOk, attributes |-> SDLAttributes,
            window |-> IF windowOk THEN "open" ELSE "none",
            context |-> contextOk, loader |-> gladOk],
   window |-> IF windowOk THEN 1 ELSE 0,
   context |-> IF contextOk THEN 1 ELSE 0,
   stdout |-> GetOpenGLVersionInfo(
      out \o (IF sdlInitOk THEN <<>>
              ELSE <<"SDL2 could not initialize video subsystem">>)
          \o (IF windowOk THEN <<>>
              ELSE <<"SDL Window was not able to be created">>)
          \o (IF contextOk THEN <<>>
              ELSE <<"OpenGL context could not be created">>)
          \o (IF gladOk THEN <<>> ELSE <<"glad was not initialized">>)),
   exited |-> FALSE]

\* The four results are those of SDL_Init, SDL_CreateWindow,
\* SDL_GL_CreateContext and gladLoadGLLoader.  exited: exit(1) was called.
InitializeProgram(s, out, sdlInitOk, windowOk, contextOk, gladOk) ==
  LET s1 == [s EXCEPT !.initialized = TRUE]
      s2 == [s1 EXCEPT !.attributes = SDLAttributes]
      s3 == [s2 EXCEPT !.window = "open"]
      s4 == [s3 EXCEPT !.context = TRUE]
      s5 == [s4 EXCEPT !.loader = TRUE]
  IN  IF ~sdlInitOk
      THEN [sdl |-> s, window |-> 0, context |-> 0, exited |-> TRUE,
            stdout |-> Append(out, "SDL2 could not initialize video subsystem")]
      ELSE IF ~windowOk
      THEN [sdl |-> s2, window |-> 0, context |-> 0, exited |-> TRUE,
            stdout |-> Append(out, "SDL Window was not able to be created")]
      ELSE IF ~contextOk
      THEN [sdl |-> s3, window |-> 1, context |-> 0, exited |-> TRUE,
            stdout |-> Append(out, "OpenGL context could not be created")]
      ELSE IF ~gladOk
      THEN [sdl |-> s4, window |-> 1, context |-> 1, exited |-> TRUE,
            stdout |-> Append(out, "glad was not initialized")]
      ELSE [sdl |-> s5, window |-> 1, context |-> 1, exited |-> FALSE,
            stdout |-> GetOpenGLVersionInfo(out)]

VertexSpecification_DisableBeforeUnbind(m, rejects) ==
  LET m1  == glGenVertexArrays(m)
      vao == m1.ret
      m2  == glBindVertexArray(m1, vao)
      m3  == glGenBuffers(m2)
      vbo == m3.ret
      m4  == glBindBuffer(m3, "GL_ARRAY_BUFFER", vbo)
      m5  == glBufferData(m4, "GL_ARRAY_BUFFER",
                          Len(vertexData) * sizeofGLfloat, vertexData)
      m6  == glGenBuffers(m5)
      ibo == m6.ret
      m7  == glBindBuffer(m6, "GL_ELEMENT_ARRAY_BUFFER", ibo)
      m8  == glBufferData(m7, "GL_ELEMENT_ARRAY_BUFFER",
                          Len(indexBufferData) * sizeofGLuint, indexBufferData)
      m9  == glEnableVertexAttribArray(m8, 0)
      m10 == glVertexAttribPointer(m9, 0, 3, sizeofGLfloat * 6, 0)
      m11 == glEnableVertexAttribArray(m10, 1)
      m12 == glVertexAttribPointer(m11, 1, 3, sizeofGLfloat * 6, sizeofGLfloat * 3)
      m13 == glDisableVertexAttribArray(m12, 0, rejects)
      m14 == glDisableVertexAttribArray(m13, 1, rejects)
      m15 == glBindVertexArray(m14, 0)
  IN  [gl |-> m15, gVertexArrayObject |-> vao, gVertexBufferObject |-> vbo,
       gIndexBufferObject |-> ibo]

\* rejects: the driver's answer to glDisableVertexAttribArray with no vertex
\* array bound.
VertexSpecification(m, rejects) ==
  LET m1  == glGenVertexArrays(m)
      vao == m1.ret
      m2  == glBindVertexArray(m1, vao)
      m3  == glGenBuffers(m2)
      vbo == m3.ret
      m4  == glBindBuffer(m3, "GL_ARRAY_BUFFER", vbo)
      m5  == glBufferData(m4, "GL_ARRAY_BUFFER",
                          Len(vertexData) * sizeofGLfloat, vertexData)
      m6  == glGenBuffers(m5)
      ibo == m6.ret
      m7  == glBindBuffer(m6, "GL_ELEMENT_ARRAY_BUFFER", ibo)
      m8  == glBufferData(m7, "GL_ELEMENT_ARRAY_BUFFER",
                          Len(indexBufferData) * sizeofGLuint, indexBufferData)
      m9  == glEnableVertexAttribArray(m8, 0)
      m10 == glVertexAttribPointer(m9, 0, 3, sizeofGLfloat * 6, 0)
      m11 == glEnableVertexAttribArray(m10, 1)
      m12 == glVertexAttribPointer(m11, 1, 3, sizeofGLfloat * 6, sizeofGLfloat * 3)
      m13 == glBindVertexArray(m12, 0)
      m14 == glDisableVertexAttribArray(m13, 0, rejects)
      m15 == glDisableVertexAttribArray(m14, 1, rejects)
  IN  [gl |-> m15, gVertexArrayObject |-> vao, gVertexBufferObject |-> vbo,
       gIndexBufferObject |-> ibo]

PreDraw(m, program) ==
  LET m1 == glDisable(m, "GL_DEPTH_TEST")
      m2 == glDisable(m1, "GL_CULL_FACE")
      m3 == glViewport(m2, 0, 0, gScreenWidth, gScreenHeight)
      m4 == glClearColor(m3, 3, 5, 27, 100)
      m5 == glClear(m4)
  IN  glUseProgram(m5, program)

Draw_Regenerate(m, vao, vbo) ==
  LET m0 == glGenBuffers(m)
      m1 == glBindVertexArray(m0, vao)
      m2 == glBindBuffer(m1, "GL_ARRAY_BUFFER", m0.ret)
      m3 == glDrawElements(m2, DrawCount, 0)
  IN  glUseProgram(m3, 0)

Draw(m, vao, vbo) ==
  LET m1 == glBindVertexArray(m, vao)
      m2 == glBindBuffer(m1, "GL_ARRAY_BUFFER", vbo)
      m3 == glDrawElements(m2, DrawCount, 0)
  IN  glUseProgram(m3, 0)

\* SDL_GL_SwapWindow: the back buffer is shown; its contents become undefined.
SDL_GL_SwapWindow(m) ==
  [Logged(m, "SDL_GL_SwapWindow", <<>>) EXCEPT !.frontBuffer = m.backBuffer,
                                                !.backBuffer = "undefined"]

CleanUp_QuitOnly(s) == [s EXCEPT !.initialized = FALSE]

CleanUp(s) ==
  LET s1 == [s EXCEPT !.window = "destroyed"]       \* SDL_DestroyWindow
  IN  [s1 EXCEPT !.initialized = FALSE]             \* SDL_Quit

\* Starts the record of the calls of one phase or one loop iteration.
Entering(m, f) == [m EXCEPT !.log = <<Call(f, <<>>)>>]

EventTypes == {"SDL_QUIT", "SDL_KEYDOWN"}

Running == pc \notin {"exited", "done"}

InLoop == pc \in Range(loopBody) \cup {"MainLoop"}

\* --------------------------------------------------------------- actions
Init ==
  /\ pc = mainSequence[1]
  /\ exitCode = -1
  /\ gQuit = FALSE
  /\ gGraphicsApplicationWindow = 0
  /\ gOpenGLContext = 0
  /\ gGraphicsPipelineShaderProgram = 0
  /\ gVertexArrayObject = 0
  /\ gVertexBufferObject = 0
  /\ gIndexBufferObject = 0
  /\ gl = NewContext
  /\ sdl = NoSDL
  /\ events = <<>>
  /\ stdout = <<>>
  /\ phases = <<>>
  /\ nInput = 0 /\ nPreDraw = 0 /\ nDraw = 0 /\ nSwap = 0
  /\ nQuitPolled = 0
  /\ quitFrame = 0

RunInitializeProgram ==
  /\ pc = "InitializeProgram"
  /\ \E sdlInitOk, windowOk, contextOk, gladOk \in BOOLEAN :
       LET r == InitializeProgram(sdl, stdout, sdlInitOk, windowOk, contextOk, gladOk)
       IN  /\ sdl' = r.sdl
           /\ stdout' = r.stdout
           /\ gGraphicsApplicationWindow' = r.window
           /\ gOpenGLContext' = r.context
           /\ pc' = IF r.exited THEN "exited" ELSE AfterMain(pc)
           /\ exitCode' = IF r.exited THEN 1 ELSE exitCode
  /\ gl' = Entering(NewContext, "InitializeProgram")
  /\ phases' = Append(phases, "InitializeProgram")
  /\ UNCHANGED <<gQuit, gGraphicsPipelineShaderProgram, gVertexArrayObject,
                 gVertexBufferObject, gIndexBufferObject, events, nInput, nPreDraw, nDraw, nSwap, nQuitPolled, quitFrame>>

RunVertexSpecification ==
  /\ pc = "VertexSpecification"
  /\ \E rejects \in BOOLEAN :
     LET r == VertexSpecification(Entering(gl, "VertexSpecification"), rejects)
     IN  /\ gl' = r.gl
         /\ gVertexArrayObject' = r.gVertexArrayObject
         /\ gVertexBufferObject' = r.gVertexBufferObject
         /\ gIndexBufferObject' = r.gIndexBufferObject
  /\ pc' = AfterMain(pc)
  /\ phases' = Append(phases, "VertexSpecification")
  /\ UNCHANGED <<exitCode, gQuit, gGraphicsApplicationWindow, gOpenGLContext,
                 gGraphicsPipelineShaderProgram, sdl, events, stdout, nInput, nPreDraw, nDraw, nSwap, nQuitPolled, quitFrame>>

\* CreateGraphicsPipeline: the two files, the driver's verdicts and the
\* contents of the two freshly allocated message buffers are inputs.
RunCreateGraphicsPipeline ==
  /\ pc = "CreateGraphicsPipeline"
  /\ \E vertFile, fragFile \in ShaderFiles :
     \E vertexVerdict, fragmentVerdict \in CompilerVerdicts :
     \E vertexMessages, fragmentMessages \in UninitialisedBuffers :
     \E linkAccepted \in BOOLEAN :
       LET vertexShaderSource == LoadShaderAsString(vertFile)
           fragmentShaderSource == LoadShaderAsString(fragFile)
           r == CreateShaderProgram(Entering(gl, "CreateGraphicsPipeline"), stdout,
                                    vertexShaderSource, fragmentShaderSource,
                                    vertexVerdict, fragmentVerdict, linkAccepted,
                                    vertexMessages, fragmentMessages)
       IN  /\ gl' = r.gl
           /\ stdout' = r.stdout
           /\ gGraphicsPipelineShaderProgram' = r.ret
  /\ pc' = AfterMain(pc)
  /\ phases' = Append(phases, "CreateGraphicsPipeline")
  /\ UNCHANGED <<exitCode, gQuit, gGraphicsApplicationWindow, gOpenGLContext,
                 gVertexArrayObject, gVertexBufferObject, gIndexBufferObject,
                 sdl, events, nInput, nPreDraw, nDraw, nSwap,
                 nQuitPolled, quitFrame>>

\* MainLoop's while condition holds: the body starts with the call of Input.
LoopEnter ==
  /\ pc = "MainLoop"
  /\ LoopCondition(gQuit)
  /\ nInput < MaxFrames
  /\ pc' = loopBody[1]
  /\ nInput' = nInput + 1
  /\ gl' = Entering(gl, "Input")
  /\ phases' = IF nInput = 0 THEN Append(phases, "MainLoop") ELSE phases
  /\ UNCHANGED <<exitCode, gQuit, gGraphicsApplicationWindow, gOpenGLContext,
                 gGraphicsPipelineShaderProgram, gVertexArrayObject,
                 gVertexBufferObject, gIndexBufferObject, sdl, events, stdout,
                 nPreDraw, nDraw, nSwap, nQuitPolled, quitFrame>>

\* MainLoop's while condition fails: MainLoop returns.
LoopExit ==
  /\ pc = "MainLoop"
  /\ ~LoopCondition(gQuit)
  /\ pc' = AfterMain(pc)
  /\ phases' = IF nInput = 0 THEN Append(phases, "MainLoop") ELSE phases
  /\ UNCHANGED <<exitCode, gQuit, gGraphicsApplicationWindow, gOpenGLContext,
                 gGraphicsPipelineShaderProgram, gVertexArrayObject,
                 gVertexBufferObject, gIndexBufferObject, gl, sdl, events, stdout,
                 nInput, nPreDraw, nDraw, nSwap, nQuitPolled, quitFrame>>

\* if (e.type == SDL_QUIT)
QuitOn(type) == type = "SDL_QUIT"

\* The record of a poll that found an event.  Events can arrive while Input
\* polls, so the polls of one call of Input have no bound: polls that found an
\* event one after the other are recorded once.
PollFound(m) ==
  IF m.log[Len(m.log)] = Call("SDL_PollEvent", <<1>>) THEN m
  ELSE Logged(m, "SDL_PollEvent", <<1>>)

\* Input: SDL_PollEvent returns 1 with the event at the head of the queue.
InputPoll ==
  /\ pc = "Input"
  /\ events # <<>>
  /\ events' = Tail(events)
  /\ gl' = PollFound(gl)
  /\ IF QuitOn(Head(events))
     THEN /\ stdout' = Append(stdout, "Goodbye!")
          /\ gQuit' = TRUE
          /\ nQuitPolled' = nQuitPolled + 1
          /\ quitFrame' = IF quitFrame = 0 THEN nInput ELSE quitFrame
     ELSE UNCHANGED <<stdout, gQuit, nQuitPolled, quitFrame>>
  /\ UNCHANGED <<pc, exitCode, gGraphicsApplicationWindow, gOpenGLContext,
                 gGraphicsPipelineShaderProgram, gVertexArrayObject,
                 gVertexBufferObject, gIndexBufferObject, sdl, phases, nInput, nPreDraw, nDraw, nSwap>>

\* Input: SDL_PollEvent returns 0 on the empty queue and Input returns.
InputReturn ==
  /\ pc = "Input"
  /\ events = <<>>
  /\ gl' = Logged(gl, "SDL_PollEvent", <<0>>)
  /\ pc' = AfterBody(pc)
  /\ UNCHANGED <<exitCode, gQuit, gGraphicsApplicationWindow, gOpenGLContext,
                 gGraphicsPipelineShaderProgram, gVertexArrayObject,
                 gVertexBufferObject, gIndexBufferObject, sdl, events, stdout,
                 phases, nInput, nPreDraw, nDraw, nSwap, nQuitPolled,
                 quitFrame>>

RunPreDraw ==
  /\ pc = "PreDraw"
  /\ gl' = PreDraw(Logged(gl, "PreDraw", <<>>), gGraphicsPipelineShaderProgram)
  /\ nPreDraw' = nPreDraw + 1
  /\ pc' = AfterBody(pc)
  /\ UNCHANGED <<exitCode, gQuit, gGraphicsApplicationWindow, gOpenGLContext,
                 gGraphicsPipelineShaderProgram, gVertexArrayObject,
                 gVertexBufferObject, gIndexBufferObject, sdl, events, stdout,
                 phases, nInput, nDraw, nSwap, nQuitPolled, quitFrame>>

RunDraw ==
  /\ pc = "Draw"
  /\ gl' = Draw(Logged(gl, "Draw", <<>>), gVertexArrayObject, gVertexBufferObject)
  /\ nDraw' = nDraw + 1
  /\ pc' = AfterBody(pc)
  /\ UNCHANGED <<exitCode, gQuit, gGraphicsApplicationWindow, gOpenGLContext,
                 gGraphicsPipelineShaderProgram, gVertexArrayObject,
                 gVertexBufferObject, gIndexBufferObject, sdl, events, stdout,
                 phases, nInput, nPreDraw, nSwap, nQuitPolled, quitFrame>>

SwapWindow ==
  /\ pc = "SwapWindow"
  /\ gl' = SDL_GL_SwapWindow(gl)
  /\ nSwap' = nSwap + 1
  /\ pc' = AfterBody(pc)
  /\ UNCHANGED <<exitCode, gQuit, gGraphicsApplicationWindow, gOpenGLContext,
                 gGraphicsPipelineShaderProgram, gVertexArrayObject,
                 gVertexBufferObject, gIndexBufferObject, sdl, events, stdout,
                 phases, nInput, nPreDraw, nDraw, nQuitPolled, quitFrame>>

RunCleanUp ==
  /\ pc = "CleanUp"
  /\ sdl' = CleanUp(sdl)
  /\ gl' = Logged(Logged(Entering(gl, "CleanUp"), "SDL_DestroyWindow",
                         <<gGraphicsApplicationWindow>>), "SDL_Quit", <<>>)
  /\ events' = <<>>
  /\ pc' = AfterMain(pc)
  /\ phases' = Append(phases, "CleanUp")
  /\ UNCHANGED <<exitCode, gQuit, gGraphicsApplicationWindow, gOpenGLContext,
                 gGraphicsPipelineShaderProgram, gVertexArrayObject,
                 gVertexBufferObject, gIndexBufferObject, stdout, nInput, nPreDraw, nDraw, nSwap, nQuitPolled, quitFrame>>

\* return 0;
MainReturn ==
  /\ pc = "return"
  /\ pc' = "done"
  /\ exitCode' = 0
  /\ UNCHANGED <<gQuit, gGraphicsApplicationWindow, gOpenGLContext,
                 gGraphicsPipelineShaderProgram, gVertexArrayObject,
                 gVertexBufferObject, gIndexBufferObject, gl, sdl, events, stdout,
                 phases, nInput, nPreDraw, nDraw, nSwap, nQuitPolled,
                 quitFrame>>

\* The SDL_QUIT events on the queue.
QuitsWaiting == Cardinality({ i \in 1..Len(events) : events[i] = "SDL_QUIT" })

\* The user (or the window system) puts an event on the queue of the open
\* window, at any time and any number of times.
PostEvent ==
  /\ Running
  /\ sdl.initialized /\ sdl.window = "open"
  /\ Len(events) < MaxEvents
  /\ \E e \in EventTypes :
       /\ e = "SDL_QUIT" => nQuitPolled + QuitsWaiting < MaxQuits
       /\ events' = Append(events, e)
  /\ UNCHANGED <<pc, exitCode, gQuit, gGraphicsApplicationWindow, gOpenGLContext,
                 gGraphicsPipelineShaderProgram, gVertexArrayObject,
                 gVertexBufferObject, gIndexBufferObject, gl, sdl, stdout, phases,
                 nInput, nPreDraw, nDraw, nSwap, nQuitPolled, quitFrame>>

\* The steps of main before MainLoop.
Setup ==
  \/ RunInitializeProgram
  \/ RunVertexSpecification
  \/ RunCreateGraphicsPipeline

\* The steps of MainLoop and of main after it.
LoopAndAfter ==
  \/ LoopEnter
  \/ LoopExit
  \/ InputPoll
  \/ InputReturn
  \/ RunPreDraw
  \/ RunDraw
  \/ SwapWindow
  \/ RunCleanUp
  \/ MainReturn

Next == Setup \/ LoopAndAfter \/ PostEvent

Spec == Init /\ [][Next]_vars

\* Every GL and SDL call returns, so once in MainLoop the program keeps
\* taking its steps.
FairSpec == Spec /\ WF_vars(LoopAndAfter)

\* ================================================================ claims
FivePhases ==
  <<"InitializeProgram", "VertexSpecification", "CreateGraphicsPipeline",
    "MainLoop", "CleanUp">>

LoopStarted == nInput > 0 \/ nPreDraw > 0 \/ nDraw > 0 \/ nSwap > 0

\* The vertex and index buffers hold the uploaded data.
Uploaded ==
  /\ gVertexBufferObject \in DOMAIN gl.buffers
  /\ gIndexBufferObject \in DOMAIN gl.buffers
  /\ gl.buffers[gVertexBufferObject].data = vertexData
  /\ gl.buffers[gIndexBufferObject].data = indexBufferData

TornDown == "CleanUp" \in Range(phases)

\* C1: the five phases of main run once each and in the order
\* InitializeProgram, VertexSpecification, CreateGraphicsPipeline, MainLoop,
\* CleanUp, and main ends only after all five; no loop iteration starts before
\* the buffers are uploaded and the shader program handle is assigned; after
\* CleanUp no loop step is taken.
C1_PhasesInOrder ==
  /\ [](/\ Len(phases) <= Len(FivePhases)
        /\ phases = SubSeq(FivePhases, 1, Len(phases))
        /\ (pc = "done" => phases = FivePhases)
        /\ (LoopStarted =>
              /\ Uploaded
              /\ gGraphicsPipelineShaderProgram # 0
              /\ SubSeq(phases, 1, 3) = SubSeq(FivePhases, 1, 3))
        /\ (TornDown => ~InLoop))
  /\ [][TornDown => UNCHANGED <<nInput, nPreDraw, nDraw, nSwap>>]_vars

C1_Witness ==
  /\ pc = "done"
  /\ phases = FivePhases
  /\ nSwap = 2

\* gQuit is false until Input polls an SDL_QUIT event, only Input on an
\* SDL_QUIT event sets it, and it is never reset; MainLoop does not exit while
\* no SDL_QUIT event has been polled.
QuitOnlyByInput ==
  /\ [](gQuit = (nQuitPolled > 0))
  /\ [](pc \in {"CleanUp", "return", "done"} => nQuitPolled > 0)
  /\ [][gQuit' # gQuit =>
          /\ pc = "Input" /\ events # <<>> /\ Head(events) = "SDL_QUIT"
          /\ gQuit']_vars

\* The program has left MainLoop, run CleanUp and returned 0.
Returned0 == pc = "done" /\ exitCode = 0 /\ TornDown

\* C2 as claimed: QuitOnlyByInput, and once an SDL_QUIT event has been polled
\* the program leaves MainLoop, runs CleanUp and returns 0, assuming only that
\* every call returns.
C2_QuitEndsTheLoop ==
  /\ QuitOnlyByInput
  /\ (nQuitPolled > 0) ~> Returned0

\* C2, amended: QuitOnlyByInput, and once an SDL_QUIT event has been polled
\* the program leaves MainLoop, runs CleanUp and returns 0, unless Input never
\* returns: its loop ends only when a poll finds the queue empty, which events
\* that keep arriving prevent.
C2_QuitEndsTheLoopIfInputReturns ==
  /\ QuitOnlyByInput
  /\ \/ (nQuitPolled > 0) ~> Returned0
     \/ <>[](pc = "Input")

C2_Witness ==
  /\ pc = "done" /\ exitCode = 0
  /\ gQuit /\ nQuitPolled = 1
  /\ nInput = 2

\* The calls of one loop iteration other than those of SDL_PollEvent.
IterationCalls ==
  <<"Input",
    "PreDraw", "glDisable_GL_DEPTH_TEST", "glDisable_GL_CULL_FACE", "glViewport",
    "glClearColor", "glClear", "glUseProgram",
    "Draw", "glBindVertexArray", "glBindBuffer_GL_ARRAY_BUFFER", "glDrawElements",
    "glUseProgram",
    "SDL_GL_SwapWindow">>

IsPoll(c) == c.f = "SDL_PollEvent"

NotPoll(c) == ~IsPoll(c)

\* How many of IterationCalls have been made when the loop is at p.
CallsMadeAt(p) ==
  CASE p = "Input" -> 1
    [] p = "PreDraw" -> 1
    [] p = "Draw" -> 8
    [] p = "SwapWindow" -> 13
    [] OTHER -> 14

\* In the record of an iteration the polls come right after the call of
\* Input, and Input has returned exactly when the last poll returned 0.
PollsThenEmpty(log, returned) ==
  LET n == Len(SelectSeq(log, IsPoll))
  IN  /\ \A i \in 2..(n + 1) : IsPoll(log[i])
      /\ \A i \in 2..n : log[i].a = <<1>>
      /\ returned <=> (n > 0 /\ log[n + 1].a = <<0>>)

\* C3: every loop iteration calls, in this order and once each, Input (which
\* polls until the queue is empty), the clear, glUseProgram, the vertex array
\* bind, one glDrawElements of 6 indices, and the swap; the draw is made onto
\* a buffer cleared in the same iteration and the swap shows a drawn buffer.
C3_IterationOrder ==
  (InLoop /\ nInput > 0) =>
    /\ Names(SelectSeq(gl.log, NotPoll)) = SubSeq(IterationCalls, 1, CallsMadeAt(pc))
    /\ PollsThenEmpty(gl.log, pc # "Input")
    /\ \A i \in 1..Len(gl.log) :
         gl.log[i].f = "glDrawElements" => gl.log[i].a = <<6, 0>>
    /\ nPreDraw = (IF pc \in {"Input", "PreDraw"} THEN nInput - 1 ELSE nInput)
    /\ nDraw = (IF pc \in {"Input", "PreDraw", "Draw"} THEN nInput - 1 ELSE nInput)
    /\ nSwap = (IF pc = "MainLoop" THEN nInput ELSE nInput - 1)
    /\ (pc = "Draw" => gl.backBuffer = "cleared")
    /\ (pc = "SwapWindow" => gl.backBuffer = "drawn" /\ gl.lastDraw.onto = "cleared")
    /\ (nSwap > 0 => gl.frontBuffer = "drawn")

C3_Witness ==
  /\ pc = "MainLoop" /\ nSwap = 2
  /\ SelectSeq(gl.log, IsPoll)
       = <<Call("SDL_PollEvent", <<1>>), Call("SDL_PollEvent", <<0>>)>>
  /\ Names(SelectSeq(gl.log, NotPoll)) = IterationCalls

InitFailures ==
  { "SDL2 could not initialize video subsystem",
    "SDL Window was not able to be created",
    "OpenGL context could not be created",
    "glad was not initialized" }

VertexFailure == "ERROR: GL_VERTEX_SHADER compilation failed!"

FragmentFailure == "ERROR: GL_FRAGMENT_SHADER compilation failed!"

Printed(msgs) == \E i \in 1..Len(stdout) : stdout[i] \in msgs

\* C4 as claimed: after any failure the program detects and reports, it goes
\* on with the remaining phases rather than stopping.
C4_ContinuesAfterEveryFailure ==
  Printed(InitFailures \cup {VertexFailure, FragmentFailure}) => pc # "exited"

\* C4, amended: a failure of SDL_Init, of the window, of the context or of the
\* loader is reported and then ends the process with status 1 inside
\* InitializeProgram, before any buffer, shader or loop iteration; a shader
\* compilation failure is reported and main goes on to MainLoop.
C4_InitFailureExits ==
  /\ [](Printed(InitFailures) <=> pc = "exited")
  /\ [](pc = "exited" =>
          /\ exitCode = 1
          /\ Len(stdout) = 1
          /\ phases = <<"InitializeProgram">>
          /\ ~LoopStarted
          /\ gVertexArrayObject = 0 /\ gGraphicsPipelineShaderProgram = 0)
  /\ [](Printed({VertexFailure, FragmentFailure}) =>
          /\ pc # "exited"
          /\ Len(phases) >= 3)
  /\ [][pc = "CreateGraphicsPipeline" /\ pc' # pc => pc' = "MainLoop"]_vars

C4_Witness ==
  /\ pc = "done" /\ exitCode = 0
  /\ Printed({VertexFailure}) /\ Printed({FragmentFailure})
  /\ nDraw = 2

\* C5 as claimed: every execution that terminates has destroyed the window
\* and quit SDL before the process ends.
C5_EveryTerminationTearsDown ==
  pc \in {"done", "exited"} =>
    /\ TornDown
    /\ sdl.window = "destroyed"
    /\ ~sdl.initialized

\* C5, amended: every execution that returns from main has called
\* SDL_DestroyWindow on the application window and then SDL_Quit, and no
\* rendering call follows them; an execution ended by exit(1) in
\* InitializeProgram has called neither.
C5_ReturnTearsDown ==
  /\ [](pc \in {"return", "done"} =>
          /\ Names(gl.log) = <<"CleanUp", "SDL_DestroyWindow", "SDL_Quit">>
          /\ gl.log[2].a = <<gGraphicsApplicationWindow>>
          /\ gGraphicsApplicationWindow # 0
          /\ sdl.window = "destroyed"
          /\ ~sdl.initialized)
  /\ [](pc = "exited" => ~TornDown /\ sdl.window # "destroyed" /\ exitCode = 1)
  /\ [][TornDown => gl' = gl /\ UNCHANGED <<nInput, nPreDraw, nDraw, nSwap>>]_vars

C5_Witness ==
  /\ pc = "done" /\ exitCode = 0
  /\ sdl.window = "destroyed"
  /\ nSwap = 1
  /\ gl.frontBuffer = "drawn"

\* The globals other than gQuit.
Handles ==
  <<gVertexArrayObject, gVertexBufferObject, gIndexBufferObject,
    gGraphicsPipelineShaderProgram, gGraphicsApplicationWindow, gOpenGLContext>>

SetupCalls ==
  { "glGenVertexArrays", "glGenBuffers", "glBufferData_GL_ARRAY_BUFFER",
    "glBufferData_GL_ELEMENT_ARRAY_BUFFER", "glCreateProgram",
    "glCreateShader_GL_VERTEX_SHADER", "glCreateShader_GL_FRAGMENT_SHADER",
    "glShaderSource", "glCompileShader", "glAttachShader", "glLinkProgram" }

\* The calls a step makes: those it appends to the record, or the whole of a
\* record it starts.
CallsOfStep ==
  IF Len(gl'.log) >= Len(gl.log) /\ SubSeq(gl'.log, 1, Len(gl.log)) = gl.log
  THEN SubSeq(gl'.log, Len(gl.log) + 1, Len(gl'.log))
  ELSE gl'.log

\* C6: a step taken inside MainLoop leaves the four GL handles, the window
\* and context handles, the buffer, vertex array, shader and program objects
\* and the SDL state unchanged, and makes no call that generates a buffer,
\* uploads data, or compiles or links a shader.
C6_LoopKeepsObjects ==
  [][InLoop =>
       /\ Handles' = Handles
       /\ gl'.buffers = gl.buffers
       /\ gl'.vertexArrays = gl.vertexArrays
       /\ gl'.shaders = gl.shaders
       /\ gl'.programs = gl.programs
       /\ sdl' = sdl
       /\ Range(Names(CallsOfStep)) \cap SetupCalls = {}]_vars

C6_Witness ==
  /\ pc = "MainLoop" /\ nSwap = 2
  /\ gQuit
  /\ Uploaded
  /\ gGraphicsPipelineShaderProgram \in DOMAIN gl.programs

Triple(s, k) == { s[3 * k - 2], s[3 * k - 1], s[3 * k] }

\* C7: once uploaded, the vertex buffer holds 4 vertices of 6 floats (24
\* floats, 96 bytes) and the index buffer the 6 indices 2,0,1,3,2,1; the draw
\* count equals the index count; every index is below 4; every attribute
\* read of a draw is the 3 floats at i*6+0 or i*6+3 and lies inside the
\* vertex buffer; the two triangles have 3 distinct vertices each, share
\* exactly vertices 1 and 2 and cover all 4.
C7_QuadWithinBuffers ==
  (gIndexBufferObject # 0) =>
    LET vb == gl.buffers[gVertexBufferObject]
        ib == gl.buffers[gIndexBufferObject]
    IN  /\ Len(vb.data) = 4 * 6
        /\ Len(vb.data) = 24
        /\ vb.size = 96
        /\ ib.data = <<2, 0, 1, 3, 2, 1>>
        /\ ib.size = 6 * sizeofGLuint
        /\ DrawCount = Len(ib.data)
        /\ \A k \in 1..Len(ib.data) : ib.data[k] \in 0..3
        /\ Cardinality(Triple(ib.data, 1)) = 3
        /\ Cardinality(Triple(ib.data, 2)) = 3
        /\ Triple(ib.data, 1) \cap Triple(ib.data, 2) = {1, 2}
        /\ Triple(ib.data, 1) \cup Triple(ib.data, 2) = 0..3
        /\ (nDraw > 0 =>
              /\ gl.lastDraw.count = Len(ib.data)
              /\ gl.lastDraw.indices = ib.data
              /\ { f.attrib : f \in gl.lastDraw.fetches } = {0, 1}
              /\ \A f \in gl.lastDraw.fetches :
                   /\ f.buffer = gVertexBufferObject
                   /\ f.first = f.index * 6 + 3 * f.attrib
                   /\ f.last = f.first + 2
                   /\ 0 <= f.first /\ f.last < Len(vb.data))

C7_Witness ==
  /\ nDraw > 0
  /\ Cardinality(gl.lastDraw.fetches) = 8
  /\ \E f \in gl.lastDraw.fetches : f.index = 3 /\ f.attrib = 1 /\ f.last = 23

\* The calls CompileShader makes, given the compile status it reads.
CompileCalls(type, ok) ==
  <<"glCreateShader_" \o type, "glShaderSource", "glCompileShader",
    "glGetShaderiv_GL_COMPILE_STATUS">>
  \o (IF ok THEN <<>>
      ELSE <<"glGetShaderiv_GL_INFO_LOG_LENGTH", "glGetShaderInfoLog",
             "glDeleteShader">>)

LinkCalls ==
  <<"glAttachShader", "glAttachShader", "glLinkProgram", "glValidateProgram",
    "glDetachShader", "glDetachShader", "glDeleteShader", "glDeleteShader">>

\* Argument k of call i of a record; -1 when there is none.
Arg(log, i, k) ==
  IF i <= Len(log) /\ k <= Len(log[i].a) THEN log[i].a[k] ELSE -1

\* The record of CreateGraphicsPipeline is what CompileShader and
\* CreateShaderProgram are claimed to do.
PipelineAsClaimed(log) ==
  LET p  == Arg(log, 2, 1)
      vc == Arg(log, 3, 1)
      vOk == Arg(log, 6, 2) = 1
      fAt == IF vOk THEN 7 ELSE 10
      fc == Arg(log, fAt, 1)
      fOk == Arg(log, fAt + 3, 2) = 1
      t  == IF fOk THEN fAt + 3 ELSE fAt + 6
      v  == IF vOk THEN vc ELSE 0
      f  == IF fOk THEN fc ELSE 0
  IN  /\ Names(log) = <<"CreateGraphicsPipeline", "glCreateProgram">>
                        \o CompileCalls("GL_VERTEX_SHADER", vOk)
                        \o CompileCalls("GL_FRAGMENT_SHADER", fOk) \o LinkCalls
      /\ ~vOk => log[9].a = <<vc>>
      /\ ~fOk => log[fAt + 6].a = <<fc>>
      /\ Printed({VertexFailure}) <=> ~vOk
      /\ Printed({FragmentFailure}) <=> ~fOk
      /\ log[t + 1].a = <<p, v>> /\ log[t + 2].a = <<p, f>>
      /\ log[t + 3].a = <<p>> /\ log[t + 4].a = <<p>>
      /\ log[t + 5].a = <<p, v>> /\ log[t + 6].a = <<p, f>>
      /\ log[t + 7].a = <<v>> /\ log[t + 8].a = <<f>>
      /\ gGraphicsPipelineShaderProgram = p
      /\ gl.shaders = <<>>

\* glLinkProgram linked the program of the pipeline.
Linked ==
  /\ gGraphicsPipelineShaderProgram \in DOMAIN gl.programs
  /\ gl.programs[gGraphicsPipelineShaderProgram].linked

\* Every frame passes the handle of the pipeline to glUseProgram and issues
\* the draw call.
EveryFrameUsesAndDraws ==
  /\ (InLoop /\ nInput > 0 /\ pc \notin {"Input", "PreDraw"}) =>
       \E i \in 1..Len(gl.log) :
         gl.log[i] = Call("glUseProgram", <<gGraphicsPipelineShaderProgram>>)
  /\ (InLoop /\ nInput > 0 /\ pc \in {"SwapWindow", "MainLoop"}) =>
       \E i \in 1..Len(gl.log) : gl.log[i].f = "glDrawElements"

DrawBindings ==
  /\ gl.lastDraw.vertexArray = gVertexArrayObject
  /\ gl.lastDraw.elementArrayBuffer = gIndexBufferObject
  /\ \A a \in 0..1 :
       /\ gl.lastDraw.attribs[a].enabled
       /\ gl.lastDraw.attribs[a].buffer = gVertexBufferObject

\* After VertexSpecification the attributes of gVertexArrayObject stay enabled.
AttribsStayEnabled ==
  gVertexArrayObject # 0 =>
    \A a \in 0..1 : gl.vertexArrays[gVertexArrayObject].attribs[a].enabled

\* After Draw has returned, and until the next PreDraw, no program is current.
NoProgramBetweenDraws ==
  (InLoop /\ pc # "Draw") => gl.currentProgram = 0

\* C9 as claimed: at every glDrawElements the current program is
\* gGraphicsPipelineShaderProgram, the vertex array is gVertexArrayObject with
\* gIndexBufferObject as element buffer and attributes 0 and 1 enabled and
\* read from gVertexBufferObject; the late glDisableVertexAttribArray calls do
\* not disable them; after each Draw the current program is 0.
C9_ProgramCurrentAtEveryDraw ==
  /\ nDraw > 0 =>
       /\ gl.lastDraw.program = gGraphicsPipelineShaderProgram
       /\ DrawBindings
  /\ AttribsStayEnabled
  /\ NoProgramBetweenDraws

\* C9, amended: as claimed, except that the current program at
\* glDrawElements is gGraphicsPipelineShaderProgram when that program linked
\* and 0 when it did not (glUseProgram rejects a program that is not linked).
C9_ProgramCurrentIfLinked ==
  /\ nDraw > 0 =>
       /\ gl.lastDraw.program =
            (IF Linked THEN gGraphicsPipelineShaderProgram ELSE 0)
       /\ DrawBindings
  /\ (pc = "Draw" =>
        gl.currentProgram = (IF Linked THEN gGraphicsPipelineShaderProgram ELSE 0))
  /\ AttribsStayEnabled
  /\ NoProgramBetweenDraws

C9_Witness ==
  /\ nDraw = 2 /\ pc = "SwapWindow"
  /\ Linked
  /\ gl.lastDraw.program = gGraphicsPipelineShaderProgram
  /\ gl.lastDraw.program # 0

Goodbyes == Cardinality({ i \in 1..Len(stdout) : stdout[i] = "Goodbye!" })

\* C10: gQuit is tested only at the top of the loop.  In the iteration whose
\* Input sets it, Input goes on polling until the queue is empty, printing
\* Goodbye! once per SDL_QUIT event, then PreDraw, Draw and the swap run once
\* each, and no Input, PreDraw, Draw or swap follows.  When MainLoop has
\* returned, the frames drawn equal the calls of Input and are at least 1.
C10_QuitFrameIsDrawn ==
  /\ [](/\ Goodbyes = nQuitPolled
        /\ (quitFrame > 0) = gQuit
        /\ (gQuit => nInput = quitFrame)
        /\ nSwap <= nDraw /\ nDraw <= nPreDraw /\ nPreDraw <= nInput
        /\ nInput <= nSwap + 1
        /\ (pc \in {"CleanUp", "return", "done"} =>
              /\ nInput >= 1
              /\ nPreDraw = nInput /\ nDraw = nInput /\ nSwap = nInput
              /\ nInput = quitFrame))
  /\ [][pc = "Input" /\ pc' # pc => events = <<>> /\ pc' = "PreDraw"]_vars
  /\ [][pc = "PreDraw" /\ pc' # pc => pc' = "Draw"]_vars
  /\ [][pc = "Draw" /\ pc' # pc => pc' = "SwapWindow"]_vars

C10_Witness ==
  /\ pc = "done"
  /\ nQuitPolled = 2 /\ Goodbyes = 2
  /\ quitFrame = 2
  /\ nDraw = 2 /\ nInput = 2
====
